---------------------------- MODULE Spec2Model ----------------------------
(***************************************************************************)
(* Model of api/db/services/dialog_service.py: the generators chat(),      *)
(* chat_solo() and ask(), the tabular fallback use_sql() and the citation  *)
(* resolver decorate_answer().                                             *)
(*                                                                         *)
(* Text is a sequence of tokens.  A token is a record [k, v]: k = "w" is a *)
(* plain word (v tells words apart), k = "m" is the citation marker        *)
(* ##v$$.  The text of a model answer is tokenised one token per element.  *)
(* SQL text is a sequence of lexemes (strings).                            *)
(***************************************************************************)
EXTENDS Integers, Sequences, FiniteSets, TLC

(***************************************************************************)
(* Bounds of the model.                                                    *)
(***************************************************************************)
\* longest cumulative answer a stream produces, in tokens
MaxLen == 34
\* most tokens one snapshot adds to the previous one
MaxGrow == 17
\* longest cumulative answer in the runs of the whole request
MaxLenChat == 32
\* most snapshots of a stream of ask()
MaxSnapshots == 3
\* lexemes of the content of a history message
MaxContent == 6

(***************************************************************************)
(* Program constants.                                                      *)
(***************************************************************************)
\* num_tokens_from_string(delta_ans) < 16
MinDeltaTokens == 16
\* tbl.get("error") and tried_times <= 2
MaxTriedTimes == 2
\* if len(flds) > 11: break
MaxSelectFields == 11

(***************************************************************************)
(* Generic helpers.                                                        *)
(***************************************************************************)
Min(a, b) == IF a < b THEN a ELSE b

Range(s) == {s[i] : i \in 1..Len(s)}

\* s[n:] of Python, n >= 0
Drop(s, n) == SubSeq(s, n + 1, Len(s))

\* s[:n] of Python, n >= 0
Take(s, n) == SubSeq(s, 1, Min(n, Len(s)))

RECURSIVE Concat(_)
Concat(ss) == IF ss = <<>> THEN <<>> ELSE Head(ss) \o Concat(Tail(ss))

\* the elements of the set of naturals S in ascending order
RECURSIVE SortedSeq(_)
SortedSeq(S) ==
    IF S = {} THEN <<>>
    ELSE LET m == CHOOSE x \in S : \A y \in S : x <= y
         IN <<m>> \o SortedSeq(S \ {m})

W(n) == [k |-> "w", v |-> n]
M(i) == [k |-> "m", v |-> i]

\* the words numbered a..b, in order
Words(a, b) == [i \in 1..(b - a + 1) |-> W(a + i - 1)]


(***************************************************************************)
(* Envelopes, references, chunks.                                          *)
(***************************************************************************)
\* a chunk of a reference: a dict with doc_id, docnm_kwd, image_id and, while
\* has_vector holds, the key "vector"
Chunk(doc, name, hasvec, vec, img) ==
    [doc_id |-> doc, docnm_kwd |-> name, has_vector |-> hasvec, vector |-> vec,
     image_id |-> img]

DocAgg(doc, name, n) == [doc_id |-> doc, doc_name |-> name, count |-> n]

\* reference {} of a streamed envelope
RefEmptyDict == [shape |-> "dict", chunks |-> <<>>, doc_aggs |-> <<>>]

\* reference [] (the error envelope, and refs = [] of decorate_answer)
RefEmptyList == [shape |-> "list", chunks |-> <<>>, doc_aggs |-> <<>>]

\* a reference {"chunks": ..., "doc_aggs": ...}
RefKb(chunks, aggs) == [shape |-> "kb", chunks |-> chunks, doc_aggs |-> aggs]

\* kind names the yield statement that produced the envelope; tts is the
\* text handed to tts() for the envelope
Envelope(kind, answer, reference, ttstext) ==
    [kind |-> kind, answer |-> answer, reference |-> reference, tts |-> ttstext]

\* the value None where an envelope may stand
NoEnvelope == Envelope("none", <<>>, RefEmptyList, <<>>)

(***************************************************************************)
(* use_sql: sanitising the statement the chat model wrote (get_table).     *)
(* A statement is a sequence of lexemes.                                   *)
(***************************************************************************)
\* positions of the lexeme l in s
Positions(s, l) == {i \in 1..Len(s) : s[i] = l}

SetMin(S) == CHOOSE x \in S : \A y \in S : x <= y

SetMax(S) == CHOOSE x \in S : \A y \in S : x >= y

\* re.sub(r"<think>.*</think>", "", sql, flags=re.DOTALL): greedy, from the
\* first <think> to the last </think>
StripThink(s) ==
    LET opens == Positions(s, "<think>")
        closes == Positions(s, "</think>")
    IN IF opens # {} /\ closes # {} /\ SetMin(opens) < SetMax(closes)
       THEN Take(s, SetMin(opens) - 1) \o Drop(s, SetMax(closes))
       ELSE s

\* str.lower() on one lexeme
LowerLexeme(l) ==
    CASE l = "SELECT" -> "select"
      [] l = "SUM(" -> "sum("
      [] l = "GROUP BY" -> "group by"
      [] OTHER -> l

Lower(s) == [i \in 1..Len(s) |-> LowerLexeme(s[i])]

\* every maximal run of the lexemes in `run` becomes the single lexeme `by`
RECURSIVE SquashRuns(_, _, _)
SquashRuns(s, run, by) ==
    IF s = <<>> THEN <<>>
    ELSE IF Head(s) \in run
         THEN IF Len(s) > 1 /\ s[2] \in run
              THEN SquashRuns(Tail(s), run, by)
              ELSE <<by>> \o SquashRuns(Tail(s), run, by)
         ELSE <<Head(s)>> \o SquashRuns(Tail(s), run, by)

\* re.sub(r"[\r\n]+", " ", sql)
NewlinesToSpace(s) == SquashRuns(s, {"\n", "\r"}, " ")

\* positions where "select " starts
SelectStarts(s) == {i \in 1..(Len(s) - 1) : s[i] = "select" /\ s[i + 1] = " "}

\* re.sub(r".*select ", "select ", sql): greedy, everything up to the last
\* "select " is replaced
CutBeforeSelect(s) ==
    IF SelectStarts(s) = {} THEN s
    ELSE <<"select", " ">> \o Drop(s, SetMax(SelectStarts(s)) + 1)

\* re.sub(r" +", " ", sql)
SquashSpaces(s) == SquashRuns(s, {" "}, " ")

\* the lexeme "fence" is the code fence of three backquotes
Terminators == {";", "fence"}

\* re.sub(r"([;]|fence).*", "", sql)
CutTerminator(s) ==
    LET ts == {i \in 1..Len(s) : s[i] \in Terminators}
    IN IF ts = {} THEN s ELSE Take(s, SetMin(ts) - 1)

\* lines 360-365 of get_table
Sanitize(raw) ==
    CutTerminator(SquashSpaces(CutBeforeSelect(NewlinesToSpace(Lower(StripThink(raw))))))

\* sql[: len("select ")] == "select "
StartsWithSelect(s) == Len(s) >= 2 /\ s[1] = "select" /\ s[2] = " "

\* re.search(r"((sum|avg|max|min)\(|group by )", sql.lower())
HasAggregate(s) ==
    \/ \E i \in 1..Len(s) : s[i] \in {"sum(", "avg(", "max(", "min("}
    \/ \E i \in 1..(Len(s) - 1) : s[i] = "group by" /\ s[i + 1] = " "

\* sql[: len("select *")] == "select *"
StartsWithSelectStar(s) == StartsWithSelect(s) /\ Len(s) >= 3 /\ s[3] = "*"

\* rag.app.resume.forbidden_select_fields4resume
ForbiddenFields == {"name_pinyin_kwd", "edu_first_fea_kwd"}

\* the loop over field_map.keys() of lines 372-378, flds collected so far
RECURSIVE SelectFields(_, _)
SelectFields(keys, flds) ==
    IF keys = <<>> THEN flds
    ELSE IF Head(keys) \in ForbiddenFields THEN SelectFields(Tail(keys), flds)
    ELSE IF Len(flds) > MaxSelectFields THEN flds
    ELSE SelectFields(Tail(keys), Append(flds, Head(keys)))

\* ",".join(flds)
RECURSIVE JoinComma(_)
JoinComma(flds) ==
    IF flds = <<>> THEN <<>>
    ELSE IF Len(flds) = 1 THEN flds
    ELSE <<Head(flds), ",">> \o JoinComma(Tail(flds))

DocColumns == <<"select", " ", "doc_id", ",", "docnm_kwd", ",">>

\* lines 368-379: force doc_id and docnm_kwd into a statement without
\* aggregate function and group by
Refine(s, field_map) ==
    IF HasAggregate(s) THEN s
    ELSE IF ~StartsWithSelectStar(s) THEN DocColumns \o Drop(s, 1)
    ELSE DocColumns \o JoinComma(SelectFields(field_map, <<>>)) \o Drop(s, 3)

(***************************************************************************)
(* use_sql: the result of sql_retrieval and the rendered table.            *)
(***************************************************************************)
\* tbl of use_sql: none is None (get_table returned None, None)
Tbl(err, cols, rows) == [none |-> FALSE, error |-> err, columns |-> cols, rows |-> rows]

NoTbl == [none |-> TRUE, error |-> FALSE, columns |-> <<>>, rows |-> <<>>]

\* cells that are empty once spaces and bars are removed (None prints as
\* "None", which line 425 replaces by " ")
BlankCells == {"", " ", "None"}

ColumnsNamed(tbl, name) == {i \in 1..Len(tbl.columns) : tbl.columns[i] = name}

\* column_idx of line 416
VisibleColumns(tbl) ==
    {i \in 1..Len(tbl.columns) : tbl.columns[i] \notin {"doc_id", "docnm_kwd"}}

\* line 426: the rows that are not empty after removing spaces and bars
SurvivingRows(tbl) ==
    SelectSeq([i \in 1..Len(tbl.rows) |-> i],
              LAMBDA i : \E c \in VisibleColumns(tbl) : tbl.rows[i][c] \notin BlankCells)

\* lines 425-430: the rendered rows, as text: row r of the result set is the
\* word W(r), followed by the marker ##ii$$ of its place among the rows kept
\* (enumerate counts from 0)
RenderRows(tbl) ==
    LET kept == SurvivingRows(tbl)
    IN Concat([j \in 1..Len(kept) |-> <<W(kept[j]), M(j - 1)>>])

RECURSIVE SqlDocAggsMutNoCount(_, _, _, _)
SqlDocAggsMutNoCount(rows, di, ni, aggs) ==
    IF rows = <<>> THEN aggs
    ELSE LET r == Head(rows)
         IN IF \E i \in 1..Len(aggs) : aggs[i].doc_id = r[di]
            THEN SqlDocAggsMutNoCount(Tail(rows), di, ni, aggs)
            ELSE SqlDocAggsMutNoCount(Tail(rows), di, ni,
                                      Append(aggs, DocAgg(r[di], r[ni], 1)))

\* lines 439-443 and 448: one entry per doc_id, in order of first occurrence
RECURSIVE SqlDocAggs(_, _, _, _)
SqlDocAggs(rows, di, ni, aggs) ==
    IF rows = <<>> THEN aggs
    ELSE LET r == Head(rows)
             at == {i \in 1..Len(aggs) : aggs[i].doc_id = r[di]}
         IN IF at = {}
            THEN SqlDocAggs(Tail(rows), di, ni, Append(aggs, DocAgg(r[di], r[ni], 1)))
            ELSE LET i == SetMin(at)
                 IN SqlDocAggs(Tail(rows), di, ni,
                               [aggs EXCEPT ![i].count = aggs[i].count + 1])

\* line 447
SqlChunks(tbl, di, ni) ==
    [i \in 1..Len(tbl.rows) |-> Chunk(tbl.rows[i][di], tbl.rows[i][ni], FALSE, <<>>, "")]

\* lines 410-451: what use_sql returns for the table of the last attempt
\* (tbl is not None); NoEnvelope is None.  The table header is the word W(0).
SqlAnswer(tbl) ==
    IF tbl.error \/ Len(tbl.rows) = 0 THEN NoEnvelope
    ELSE LET dis == ColumnsNamed(tbl, "doc_id")
             nis == ColumnsNamed(tbl, "docnm_kwd")
             text == <<W(0)>> \o RenderRows(tbl)
         IN IF dis = {} \/ nis = {}
            THEN Envelope("sql", text, RefKb(<<>>, <<>>), <<>>)
            ELSE LET di == SetMin(dis)
                     ni == SetMin(nis)
                 IN Envelope("sql", text,
                             RefKb(SqlChunks(tbl, di, ni),
                                   SqlDocAggs(tbl.rows, di, ni, <<>>)),
                             <<>>)


(***************************************************************************)
(* Text of answers: tokens besides words and markers.                      *)
(***************************************************************************)
\* the closing reasoning tag </think>
ThinkEnd == [k |-> "t", v |-> 0]

\* text holding "invalid key" or "invalid api"
InvalidKey == [k |-> "x", v |-> 0]

\* the suffix " Please set LLM API-Key in ..."
Guidance == [k |-> "g", v |-> 0]

\* the embed <img src=url ...> of the image image_id
Img(image_id) == [k |-> "img", v |-> image_id]

\* rag.utils.num_tokens_from_string: one token per element of the text
NumTokens(text) == Len(text)

DeltaMutWhole(ans, last) == ans

\* ans[len(last_ans):]
Delta(ans, last) == Drop(ans, Len(last))

\* num_tokens_from_string(delta_ans) < 16: the snapshot is withheld
Withheld(delta) == NumTokens(delta) < MinDeltaTokens

(***************************************************************************)
(* The retrieval result and decorate_answer.                               *)
(***************************************************************************)
KbInfo(chunks, aggs) == [chunks |-> chunks, doc_aggs |-> aggs]

\* kbinfos = {"total": 0, "chunks": [], "doc_aggs": []}
EmptyKbInfo == KbInfo(<<>>, <<>>)

\* rag.prompts.kb_prompt: one knowledge block per retrieved document, none
\* when nothing was retrieved; only whether it is empty is read here
KbPrompt(kb) == Len(kb.chunks)

\* answer.split("</think>"): [think, rest] when the tag occurs exactly once
SplitThink(answer) ==
    LET at == {i \in 1..Len(answer) : answer[i] = ThinkEnd}
    IN IF Cardinality(at) = 1
       THEN [think |-> Take(answer, SetMin(at)), rest |-> Drop(answer, SetMin(at))]
       ELSE [think |-> <<>>, rest |-> answer]

\* the indices of the markers ##i$$ of a text
MarkerIndices(text) == {text[i].v : i \in {j \in 1..Len(text) : text[j].k = "m"}}

CitedByMarkersMutNone(text, chunks) == {}

\* lines 250-253: the markers whose index is a chunk's
CitedByMarkers(text, chunks) == {i \in MarkerIndices(text) : i < Len(chunks)}

\* retriever.insert_citations: the answer with the markers of the chunks idx
\* it chose; the markers are put at the end of the text
InsertCitations(text, idx) ==
    text \o [j \in 1..Cardinality(idx) |-> M(SortedSeq(idx)[j])]

RECURSIVE InsertImagesMutWrap(_, _, _)
InsertImagesMutWrap(text, chunks, seen) ==
    IF text = <<>> THEN <<>>
    ELSE LET t == Head(text)
             img == IF t.k = "m" /\ chunks # <<>>
                    THEN chunks[(t.v % Len(chunks)) + 1].image_id ELSE 0
         IN IF img # 0 /\ img \notin seen
            THEN <<t, Img(img)>> \o InsertImagesMutWrap(Tail(text), chunks, seen \cup {img})
            ELSE <<t>> \o InsertImagesMutWrap(Tail(text), chunks, seen)

RECURSIVE InsertImagesMutRepeat(_, _, _)
InsertImagesMutRepeat(text, chunks, seen) ==
    IF text = <<>> THEN <<>>
    ELSE LET t == Head(text)
             img == IF t.k = "m" /\ t.v < Len(chunks)
                    THEN chunks[t.v + 1].image_id ELSE 0
         IN IF img # 0
            THEN <<t, Img(img)>> \o InsertImagesMutRepeat(Tail(text), chunks, seen)
            ELSE <<t>> \o InsertImagesMutRepeat(Tail(text), chunks, seen)

\* lines 256-279: re.sub over the markers, left to right; seen is
\* processed_image_urls
RECURSIVE InsertImages(_, _, _)
InsertImages(text, chunks, seen) ==
    IF text = <<>> THEN <<>>
    ELSE LET t == Head(text)
             img == IF t.k = "m" /\ t.v < Len(chunks)
                    THEN chunks[t.v + 1].image_id ELSE 0
         IN IF img # 0 /\ img \notin seen
            THEN <<t, Img(img)>> \o InsertImages(Tail(text), chunks, seen \cup {img})
            ELSE <<t>> \o InsertImages(Tail(text), chunks, seen)

RecallDocsMutNoFallback(kb, cited) ==
    SelectSeq(kb.doc_aggs,
              LAMBDA d : d.doc_id \in {kb.chunks[i + 1].doc_id : i \in cited})

\* lines 282-285 and 528-531: the documents of the cited chunks, or all of
\* them when none is left
RecallDocs(kb, cited) ==
    LET idx == {kb.chunks[i + 1].doc_id : i \in cited}
        recall_docs == SelectSeq(kb.doc_aggs, LAMBDA d : d.doc_id \in idx)
    IN IF recall_docs = <<>> THEN kb.doc_aggs ELSE recall_docs

\* if c.get("vector"): del c["vector"]  -- an empty vector is falsy
StripVector(c) ==
    IF c.has_vector /\ c.vector # <<>>
    THEN [c EXCEPT !.has_vector = FALSE, !.vector = <<>>]
    ELSE c

\* lines 288-291 and 533-536
StripVectors(chunks) == [i \in 1..Len(chunks) |-> StripVector(chunks[i])]

\* lines 294-295 and 538-539
WithGuidance(text) ==
    IF \E i \in 1..Len(text) : text[i] = InvalidKey THEN Append(text, Guidance) ELSE text

\* chat's decorate_answer, lines 223-313.  quoting is
\* knowledges and prompt_config.get("quote", True) and kwargs.get("quote", True);
\* ic is what insert_citations answers when it is asked.  The result holds
\* the envelope, kbinfos as the call leaves it, the cited chunk indices and
\* whether insert_citations was called.
DecorateAnswer(answer, kb, quoting, ic) ==
    LET sp == SplitThink(answer)
        marked == MarkerIndices(sp.rest) # {}
        cited == IF marked THEN CitedByMarkers(sp.rest, kb.chunks) ELSE ic
        text1 == IF marked THEN sp.rest ELSE InsertCitations(sp.rest, ic)
        text2 == InsertImages(text1, kb.chunks, {})
        kb2 == [kb EXCEPT !.doc_aggs = RecallDocs(kb, cited)]
    IN IF quoting
       THEN [env |-> Envelope("final", sp.think \o WithGuidance(text2),
                              RefKb(StripVectors(kb2.chunks), kb2.doc_aggs), <<>>),
             kb |-> kb2, cited |-> cited, asked |-> ~marked]
       ELSE [env |-> Envelope("final", sp.think \o WithGuidance(sp.rest),
                              RefEmptyList, <<>>),
             kb |-> kb, cited |-> {}, asked |-> FALSE]

\* rag.prompts.chunks_format: the chunks as the caller sees them, built from
\* the named fields of each chunk; the vector is not one of them
ChunksFormat(chunks) ==
    [i \in 1..Len(chunks) |->
        [chunks[i] EXCEPT !.has_vector = FALSE, !.vector = <<>>]]

\* ask's decorate_answer, lines 525-541
AskDecorateAnswer(answer, kb, ic) ==
    LET text == InsertCitations(answer, ic)
        kb2 == [kb EXCEPT !.doc_aggs = RecallDocs(kb, ic)]
    IN [env |-> Envelope("final", WithGuidance(text),
                         RefKb(ChunksFormat(StripVectors(kb2.chunks)), kb2.doc_aggs),
                         <<>>),
        kb |-> kb2, cited |-> ic, asked |-> TRUE]


(***************************************************************************)
(* The conversation history.  The content of a message is a text of        *)
(* lexemes: "##" and "$$" are the brackets of a citation marker, a lexeme   *)
(* of Digits is one decimal digit, any other lexeme is other text.         *)
(***************************************************************************)
Digits == {"1", "2"}

Message(role, content) == [role |-> role, content |-> content]

\* the length of the match of ##\d+\$\$ that starts at the head of s, 0 when
\* there is none
MatchLength(s) ==
    IF Len(s) >= 3 /\ s[1] = "##" /\ s[2] \in Digits
    THEN LET ends == {j \in 3..Len(s) :
                         /\ s[j] = "$$"
                         /\ \A k \in 2..(j - 1) : s[k] \in Digits}
         IN IF ends = {} THEN 0 ELSE SetMin(ends)
    ELSE 0

\* re.sub(r"##\d+\$\$", "", content): one pass from left to right, that
\* removes each match and goes on behind it
RECURSIVE StripMarkers(_)
StripMarkers(s) ==
    IF s = <<>> THEN <<>>
    ELSE IF MatchLength(s) > 0 THEN StripMarkers(Drop(s, MatchLength(s)))
         ELSE <<Head(s)>> \o StripMarkers(Tail(s))

HistoryMessagesMutKeepSystem(ms) ==
    [i \in 1..Len(ms) |-> Message(ms[i].role, StripMarkers(ms[i].content))]

\* [{"role": ..., "content": re.sub(...)} for m in messages if m["role"] != "system"]
HistoryMessages(ms) ==
    LET kept == SelectSeq(ms, LAMBDA m : m.role # "system")
    IN [i \in 1..Len(kept) |-> Message(kept[i].role, StripMarkers(kept[i].content))]

\* msg of chat_solo, line 70
SoloMessages(ms) == HistoryMessages(ms)

\* msg of chat(), lines 210 and 215: the system message of the dialog and
\* the history
ChatMessages(system, ms) == <<Message("system", system)>> \o HistoryMessages(ms)

\* the question of ask() and use_sql()
Question == <<Message("user", <<"q">>)>>

\* a conversation: a system message, an answer that cites a chunk, the question
History ==
    <<Message("system", <<"s">>), Message("assistant", <<"a", "##", "1", "$$">>)>>
    \o Question

(***************************************************************************)
(* The inputs of a request.                                                *)
(***************************************************************************)
\* a parameter of prompt_config["parameters"]
Param(key, optional) == [key |-> key, optional |-> optional]

ParamLists ==
    { <<>>,
      <<Param("knowledge", FALSE)>>,
      <<Param("knowledge", FALSE), Param("p", FALSE)>>,
      <<Param("q", TRUE), Param("p", FALSE), Param("knowledge", FALSE)>> }

\* the keys of **kwargs (doc_ids and quote are not passed)
KwargSets == { {}, {"p"}, {"p", "q"} }

\* the embedding model of each attached knowledge base
KbLists == { <<>>, <<"e1", "e1">>, <<"e1", "e2">> }

\* KnowledgebaseService.get_field_map(dialog.kb_ids): the field names, in order
Fields ==
    <<"f1", "name_pinyin_kwd", "f2", "f3", "f4", "f5", "f6", "f7", "f8", "f9",
      "f10", "f11", "f12", "edu_first_fea_kwd", "f13", "f14">>

FieldMaps == { <<>>, Fields }

\* prompt_config["system"], a text of lexemes
SystemTemplate == <<"{p}", "{q}", "{knowledge}">>

\* llm_setting has no max_tokens
NoMaxTokens == -1

\* llm_model_config.get("max_tokens", 8192), scaled
ModelMaxTokens == 8

\* used_token_count of message_fit_in
UsedTokenCounts == {5}

\* the text of prompt_config["empty_response"]; <<>> when there is none
EmptyResponses == { <<>>, <<W(99)>> }

Dialog(kbs, fm, params, er, quote, keyword, mt) ==
    [kbs |-> kbs, field_map |-> fm, parameters |-> params, empty_response |-> er,
     quote |-> quote, keyword |-> keyword, system |-> SystemTemplate,
     max_tokens |-> mt]

Dialogs ==
    { Dialog(kbs, fm, params, er, quote, keyword, mt) :
        kbs \in KbLists, fm \in FieldMaps, params \in ParamLists,
        er \in EmptyResponses, quote \in BOOLEAN, keyword \in BOOLEAN,
        mt \in {4} }

\* the dialog of the runs that look at the streaming loop and at use_sql alone
PlainDialog(quote, er) ==
    Dialog(<<"e1", "e1">>, <<>>, <<Param("knowledge", FALSE)>>, er, quote, FALSE,
           NoMaxTokens)

\* chunks a retrieval returns: the vector of the second is empty, the third
\* shares the image of the first and its document is in no doc_aggs
ChunkA == Chunk("d1", "n1", TRUE, <<1>>, 1)

ChunkB == Chunk("d2", "n2", TRUE, <<>>, 0)

ChunkC == Chunk("d3", "n3", TRUE, <<1>>, 1)

\* what retriever.retrieval returns
KbInfos ==
    { EmptyKbInfo,
      KbInfo(<<ChunkA>>, <<>>),
      KbInfo(<<ChunkA, ChunkB>>, <<DocAgg("d1", "n1", 1), DocAgg("d2", "n2", 1)>>),
      KbInfo(<<ChunkA, ChunkB, ChunkC>>,
             <<DocAgg("d1", "n1", 1), DocAgg("d2", "n2", 1)>>) }

\* what insert_citations may answer for the chunks of kb
CitationSets(kb) == SUBSET {i \in 0..(Len(kb.chunks) - 1) : TRUE}

\* what chat_mdl.chat answers in a request that does not stream
ChatAnswers ==
    { <<W(1)>>,
      <<W(1), M(0)>>,
      <<W(1), M(1), M(0), M(7)>>,
      <<W(1), ThinkEnd, W(2), M(0)>>,
      <<W(1), M(2)>>,
      <<M(2), W(1), M(0)>>,
      <<InvalidKey>> }

\* what the chat model writes when use_sql asks it for a statement
SqlOutputs ==
    { <<"select", " ", "f1", " ", "from", " ", "t">>,
      <<"SELECT", " ", "*", " ", "from", " ", "t", ";">>,
      <<"<think>", "select", " ", "</think>", "sorry">>,
      <<"fence", "sql", "\n", "select", " ", "count(", "*", ")", " ", "from", " ", "t",
        "\n", "fence">>,
      <<"<think>", "x", "</think>", "select", " ", "sum(", "f1", ")", " ", "from", " ",
        "t", " ", "group by", " ", "f2">>,
      <<"sorry">>,
      <<>> }

\* the outputs tried in the runs of the whole request
SqlOutputsChat ==
    { <<"select", " ", "f1", " ", "from", " ", "t">>,
      <<"sorry">> }

\* what settings.retrievaler.sql_retrieval returns
TblError == Tbl(TRUE, <<>>, <<>>)

TblNoRows == Tbl(FALSE, <<"doc_id", "docnm_kwd", "f1">>, <<>>)

TblTwoDocs ==
    Tbl(FALSE, <<"doc_id", "docnm_kwd", "f1">>,
        << <<"d1", "n1", "x">>, <<"d2", "n2", "y">>, <<"d1", "n1", "z">> >>)

TblBlankRow ==
    Tbl(FALSE, <<"doc_id", "docnm_kwd", "f1">>,
        << <<"d1", "n1", "None">>, <<"d2", "n2", "y">> >>)

TblAggregate == Tbl(FALSE, <<"count(*)">>, << <<"3">> >>)

\* an error reported together with rows
TblErrorRows ==
    Tbl(TRUE, <<"doc_id", "docnm_kwd", "f1">>, << <<"d9", "n9", "x">> >>)

Tables == {TblError, TblErrorRows, TblNoRows, TblTwoDocs, TblBlankRow, TblAggregate}

TablesChat == {TblError, TblNoRows, TblTwoDocs}

\* tokens a snapshot may add in the runs of the whole request
GrowChat == {MinDeltaTokens - 1, MinDeltaTokens}


(***************************************************************************)
(* The state.                                                              *)
(***************************************************************************)
VARIABLES
    entry,        \* the function that was called: "chat", "ask" or "use_sql"
    pc,           \* where the call stands
    dialog,       \* the dialog object: prompt_config, llm_setting, kb_ids
    kwargs,       \* the keys of the keyword arguments of chat()
    stream,       \* the argument stream
    messages,     \* the argument messages: the conversation history
    msg,          \* the messages handed to the chat model, <<>> until built
    calls,        \* how often each external collaborator was called
    out,          \* the envelopes yielded so far, in order
    exc,          \* the exception the call raised, "none" while it has not
    tried_times,  \* use_sql
    user_prompt,  \* use_sql: the failed statement the prompt quotes, <<>> at first
    tbl,          \* use_sql: the result of the last get_table()
    sql,          \* use_sql: the statement of the last get_table()
    sqllog,       \* use_sql: the outcome of each get_table(), in order
    sqlret,       \* use_sql: the value returned
    kbinfos,      \* the retrieval result as the request holds it
    retrieved,    \* the retrieval result as the retriever returned it
    knowledges,   \* len(knowledges)
    cited,        \* decorate_answer: the cited chunk indices
    answer,       \* the last snapshot of the stream
    last_ans,     \* the last snapshot that was yielded
    delta_ans     \* chat_solo: delta_ans, bound once the loop body ran

sqlvars == <<tried_times, user_prompt, tbl, sql, sqllog, sqlret>>

kbvars == <<kbinfos, retrieved, knowledges, cited>>

streamvars == <<answer, last_ans, delta_ans>>

reqvars == <<entry, dialog, messages, kwargs, stream>>

vars == <<entry, pc, dialog, messages, msg, kwargs, stream, calls, out, exc, tried_times, user_prompt,
          tbl, sql,
          sqllog, sqlret, kbinfos, retrieved, knowledges, cited, answer, last_ans,
          delta_ans>>

CallKinds == {"sqlchat", "sqlexec", "keyword", "retrieval", "generate", "citations"}

\* calls of the chat model, whatever they ask for
ChatModelCalls == calls["sqlchat"] + calls["keyword"] + calls["generate"]

Called(kind) == [calls EXCEPT ![kind] = calls[kind] + 1]

\* a local name that is not bound yet
Unbound == [bound |-> FALSE, text |-> <<>>]

Bound(text) == [bound |-> TRUE, text |-> text]

\* the state in which `fn` is called with the given arguments
Start(fn, d, ms, kw, st) ==
    /\ entry = fn
    /\ pc = fn
    /\ dialog = d
    /\ messages = ms
    /\ msg = <<>>
    /\ kwargs = kw
    /\ stream = st
    /\ calls = [c \in CallKinds |-> 0]
    /\ out = <<>>
    /\ exc = "none"
    /\ tried_times = 0
    /\ user_prompt = <<>>
    /\ tbl = NoTbl
    /\ sql = <<>>
    /\ sqllog = <<>>
    /\ sqlret = NoEnvelope
    /\ kbinfos = EmptyKbInfo
    /\ retrieved = EmptyKbInfo
    /\ knowledges = 0
    /\ cited = {}
    /\ answer = <<>>
    /\ last_ans = <<>>
    /\ delta_ans = Unbound

\* a request: chat(dialog, messages, stream, **kwargs) or ask(question, kb_ids,
\* tenant_id), the last message being the user's
Init ==
    \/ \E d \in Dialogs, kw \in KwargSets, st \in BOOLEAN :
           Start("chat", d, History, kw, st)
    \/ Start("ask", PlainDialog(TRUE, <<>>), Question, {}, TRUE)

(***************************************************************************)
(* chat(): lines 89-113.                                                   *)
(***************************************************************************)
\* "**ERROR**: Knowledge bases use different embedding models."
DifferentEmbeddingModels == [k |-> "e", v |-> 0]

EmbeddingsDifferMutNever(kbs) == FALSE

\* len(embedding_list) != 1
EmbeddingsDiffer(kbs) == Cardinality(Range(kbs)) # 1

ChatEntry ==
    /\ pc = "chat"
    /\ IF dialog.kbs = <<>>
       THEN /\ pc' = "solo"
            /\ out' = out
       ELSE IF EmbeddingsDiffer(dialog.kbs)
       THEN /\ out' = Append(out, Envelope("error", <<DifferentEmbeddingModels>>,
                                           RefEmptyList, <<>>))
            /\ pc' = "done"
       ELSE /\ pc' = IF dialog.field_map # <<>> THEN "use_sql" ELSE "params"
            /\ out' = out
    /\ UNCHANGED <<reqvars, msg, calls, exc, sqlvars, kbvars, streamvars>>

(***************************************************************************)
(* chat_solo(): lines 60-86.                                               *)
(***************************************************************************)
SoloAnswer(ans) ==
    /\ pc = "solo"
    /\ ~stream
    /\ msg' = SoloMessages(messages)
    /\ calls' = Called("generate")
    /\ out' = Append(out, Envelope("solo", ans, RefEmptyDict, ans))
    /\ pc' = "done"
    /\ UNCHANGED <<reqvars, exc, sqlvars, kbvars, streamvars>>

SoloStreamBegin ==
    /\ pc = "solo"
    /\ stream
    /\ msg' = SoloMessages(messages)
    /\ calls' = Called("generate")
    /\ last_ans' = <<>>
    /\ pc' = "solo_stream"
    /\ UNCHANGED <<reqvars, out, exc, sqlvars, kbvars, answer, delta_ans>>

\* one turn of the loop of lines 73-79: the snapshot adds k tokens
SoloSnapshot(k, cap) ==
    /\ pc = "solo_stream"
    /\ Len(answer) + k <= cap
    /\ LET ans == answer \o Words(Len(answer) + 1, Len(answer) + k)
           delta == Delta(ans, last_ans)
       IN /\ answer' = ans
          /\ delta_ans' = Bound(delta)
          /\ IF Withheld(delta)
             THEN UNCHANGED <<last_ans, out>>
             ELSE /\ last_ans' = ans
                  /\ out' = Append(out, Envelope("delta", ans, RefEmptyDict, delta))
    /\ UNCHANGED <<reqvars, msg, pc, calls, exc, sqlvars, kbvars>>

\* lines 80-81, once the stream is exhausted
SoloStreamEnd ==
    /\ pc = "solo_stream"
    /\ IF ~delta_ans.bound
       THEN /\ exc' = "UnboundLocalError"
            /\ pc' = "raised"
            /\ out' = out
       ELSE /\ out' = IF delta_ans.text # <<>>
                      THEN Append(out, Envelope("flush", answer, RefEmptyDict,
                                                delta_ans.text))
                      ELSE out
            /\ pc' = "done"
            /\ exc' = exc
    /\ UNCHANGED <<reqvars, msg, calls, sqlvars, kbvars, streamvars>>

(***************************************************************************)
(* use_sql(): lines 344-451.                                               *)
(***************************************************************************)
\* get_table(), lines 357-383: raw is what the chat model wrote, res what
\* sql_retrieval returns if the statement is executed
GetTable(raw, res, field_map) ==
    LET s == Sanitize(raw)
    IN IF ~StartsWithSelect(s)
       THEN [tbl |-> NoTbl, sql |-> <<>>, executed |-> FALSE]
       ELSE [tbl |-> res, sql |-> Refine(s, field_map), executed |-> TRUE]

\* what the log keeps of a get_table()
Outcome(g) ==
    IF ~g.executed THEN "rejected" ELSE IF g.tbl.error THEN "error" ELSE "ok"

RetriesMutAlways(t, n) == TRUE

\* tbl.get("error") and tried_times <= 2
Retries(t, n) == t.error /\ n <= MaxTriedTimes

AfterFirstMutRetryOnNone(t, n) ==
    IF t.none \/ Retries(t, n) THEN "retry" ELSE "finish"

\* lines 386-388: what follows the first get_table()
AfterFirst(t, n) ==
    IF t.none THEN "none" ELSE IF Retries(t, n) THEN "retry" ELSE "finish"

\* lines 385-388 and, without a retry, 410-451
UseSqlFirst(raw, res) ==
    /\ pc = "use_sql"
    /\ LET g == GetTable(raw, res, dialog.field_map)
           n == IF g.executed THEN tried_times + 1 ELSE tried_times
       IN /\ calls' = IF g.executed THEN [Called("sqlchat") EXCEPT !["sqlexec"] = @ + 1]
                      ELSE Called("sqlchat")
          /\ tbl' = g.tbl
          /\ sql' = g.sql
          /\ tried_times' = n
          /\ sqllog' = Append(sqllog, Outcome(g))
          /\ IF AfterFirst(g.tbl, n) = "none"
             THEN /\ sqlret' = NoEnvelope
                  /\ pc' = "sql_ret"
                  /\ user_prompt' = user_prompt
             ELSE IF AfterFirst(g.tbl, n) = "retry"
             THEN /\ sqlret' = sqlret
                  /\ pc' = "sql_retry"
                  /\ user_prompt' = g.sql
             ELSE /\ sqlret' = SqlAnswer(g.tbl)
                  /\ pc' = "sql_ret"
                  /\ user_prompt' = user_prompt
    /\ UNCHANGED <<reqvars, msg, out, exc, kbvars, streamvars>>

\* lines 389-451: the corrective attempt.  tbl.get("error") of line 411 raises
\* AttributeError when get_table returned None
UseSqlRetry(raw, res) ==
    /\ pc = "sql_retry"
    /\ LET g == GetTable(raw, res, dialog.field_map)
           n == IF g.executed THEN tried_times + 1 ELSE tried_times
       IN /\ calls' = IF g.executed THEN [Called("sqlchat") EXCEPT !["sqlexec"] = @ + 1]
                      ELSE Called("sqlchat")
          /\ tbl' = g.tbl
          /\ sql' = g.sql
          /\ tried_times' = n
          /\ sqllog' = Append(sqllog, Outcome(g))
          /\ IF g.tbl.none
             THEN /\ exc' = "AttributeError"
                  /\ pc' = "raised"
                  /\ sqlret' = sqlret
             ELSE /\ sqlret' = SqlAnswer(g.tbl)
                  /\ pc' = "sql_ret"
                  /\ exc' = exc
    /\ UNCHANGED <<reqvars, msg, out, user_prompt, kbvars, streamvars>>

ChatAfterSqlMutNoReturn ==
    /\ pc = "sql_ret"
    /\ entry = "chat"
    /\ out' = IF sqlret # NoEnvelope THEN Append(out, sqlret) ELSE out
    /\ pc' = "params"
    /\ UNCHANGED <<reqvars, msg, calls, exc, sqlvars, kbvars, streamvars>>

\* chat(), lines 146-148: if ans: yield ans; return
ChatAfterSql ==
    /\ pc = "sql_ret"
    /\ entry = "chat"
    /\ IF sqlret # NoEnvelope
       THEN /\ out' = Append(out, sqlret)
            /\ pc' = "done"
       ELSE /\ out' = out
            /\ pc' = "params"
    /\ UNCHANGED <<reqvars, msg, calls, exc, sqlvars, kbvars, streamvars>>


(***************************************************************************)
(* chat(): lines 150-221.                                                  *)
(***************************************************************************)
\* str.replace("{key}", " ") on the template
BlankOut(system, key) ==
    [i \in 1..Len(system) |-> IF system[i] = "{" \o key \o "}" THEN " " ELSE system[i]]

\* the loop of lines 150-156; raised tells that KeyError("Miss parameter: ...")
\* left it, system is prompt_config["system"] as the loop leaves it
ParamsLoopMutNoRaise(params, kw, system) == [raised |-> FALSE, system |-> system]

RECURSIVE ParamsLoop(_, _, _)
ParamsLoop(params, kw, system) ==
    IF params = <<>> THEN [raised |-> FALSE, system |-> system]
    ELSE LET p == Head(params)
         IN IF p.key = "knowledge" THEN ParamsLoop(Tail(params), kw, system)
            ELSE IF p.key \notin kw /\ ~p.optional
                 THEN [raised |-> TRUE, system |-> system]
            ELSE IF p.key \notin kw
                 THEN ParamsLoop(Tail(params), kw, BlankOut(system, p.key))
            ELSE ParamsLoop(Tail(params), kw, system)

ChatParams ==
    /\ pc = "params"
    /\ LET r == ParamsLoop(dialog.parameters, kwargs, dialog.system)
       IN /\ dialog' = [dialog EXCEPT !.system = r.system]
          /\ IF r.raised
             THEN /\ exc' = "KeyError"
                  /\ pc' = "raised"
             ELSE /\ exc' = exc
                  /\ pc' = "retrieve"
    /\ UNCHANGED <<entry, messages, kwargs, stream, msg, calls, out, sqlvars, kbvars, streamvars>>

\* "knowledge" not in [p["key"] for p in prompt_config["parameters"]]
DeclaresKnowledge(params) == \E i \in 1..Len(params) : params[i].key = "knowledge"

\* lines 169-197: kb is what retriever.retrieval returns if it is called
ChatRetrieve(kb) ==
    /\ pc = "retrieve"
    /\ IF ~DeclaresKnowledge(dialog.parameters)
       THEN /\ kbinfos' = EmptyKbInfo
            /\ retrieved' = EmptyKbInfo
            /\ knowledges' = 0
            /\ calls' = calls
       ELSE /\ kbinfos' = kb
            /\ retrieved' = kb
            /\ knowledges' = KbPrompt(kb)
            /\ calls' = [calls EXCEPT !["keyword"] = IF dialog.keyword THEN @ + 1 ELSE @,
                                      !["retrieval"] = @ + 1]
    /\ pc' = "retrieved"
    /\ UNCHANGED <<reqvars, msg, out, exc, sqlvars, cited, streamvars>>

AnswersEmptyMutNever == FALSE

\* not knowledges and prompt_config.get("empty_response")
AnswersEmpty == knowledges = 0 /\ dialog.empty_response # <<>>

\* lines 202-205
ChatEmptyResponse ==
    /\ pc = "retrieved"
    /\ AnswersEmpty
    /\ out' = Append(out, Envelope("empty", dialog.empty_response,
                                   RefKb(kbinfos.chunks, kbinfos.doc_aggs),
                                   dialog.empty_response))
    /\ pc' = "done"
    /\ UNCHANGED <<reqvars, msg, calls, exc, sqlvars, kbvars, streamvars>>

\* lines 207-221: used is used_token_count of message_fit_in; gen_conf is
\* dialog.llm_setting itself
ChatPrompt(used) ==
    /\ pc = "retrieved"
    /\ ~AnswersEmpty
    /\ dialog' = [dialog EXCEPT !.max_tokens =
                      IF @ = NoMaxTokens THEN @ ELSE Min(@, ModelMaxTokens - used)]
    /\ msg' = ChatMessages(dialog.system, messages)
    /\ pc' = "generate"
    /\ UNCHANGED <<entry, messages, kwargs, stream, calls, out, exc, sqlvars, kbvars, streamvars>>

\* knowledges and (prompt_config.get("quote", True) and kwargs.get("quote", True))
Quoting == knowledges > 0 /\ dialog.quote

(***************************************************************************)
(* chat(): lines 315-341, generation.                                      *)
(***************************************************************************)
\* thought of line 168, never assigned again
thought == <<>>

\* lines 336-341
ChatAnswer(ans, ic) ==
    /\ pc = "generate"
    /\ ~stream
    /\ LET d == DecorateAnswer(ans, kbinfos, Quoting, ic)
       IN /\ calls' = [calls EXCEPT !["generate"] = @ + 1,
                                    !["citations"] = IF d.asked THEN @ + 1 ELSE @]
          /\ kbinfos' = d.kb
          /\ cited' = d.cited
          /\ out' = Append(out, [d.env EXCEPT !.tts = ans])
    /\ pc' = "done"
    /\ UNCHANGED <<reqvars, msg, exc, sqlvars, retrieved, knowledges, streamvars>>

\* lines 315-318: the stream is opened
ChatStreamBegin ==
    /\ pc = "generate"
    /\ stream
    /\ calls' = Called("generate")
    /\ last_ans' = <<>>
    /\ answer' = <<>>
    /\ pc' = "stream"
    /\ UNCHANGED <<reqvars, msg, out, exc, sqlvars, kbvars, delta_ans>>

\* one turn of the loop of lines 318-330: the snapshot adds k tokens
ChatSnapshot(k, cap) ==
    /\ pc = "stream"
    /\ Len(answer) + k <= cap
    /\ LET ans == answer \o Words(Len(answer) + 1, Len(answer) + k)
           delta == Delta(ans, last_ans)
       IN /\ answer' = ans
          /\ IF Withheld(delta)
             THEN UNCHANGED <<last_ans, out>>
             ELSE /\ last_ans' = ans
                  /\ out' = Append(out, Envelope("delta", thought \o ans, RefEmptyDict,
                                                 delta))
    /\ UNCHANGED <<reqvars, msg, pc, calls, exc, sqlvars, kbvars, delta_ans>>

\* the envelope of lines 331-333, if any
Flush(ans, last) ==
    IF Delta(ans, last) # <<>>
    THEN <<Envelope("flush", thought \o ans, RefEmptyDict, Delta(ans, last))>>
    ELSE <<>>

StreamTailMutFinalFirst(ans, last, final) == <<final>> \o Flush(ans, last)

\* lines 331-334: what is yielded once the stream is exhausted, final being
\* the envelope of decorate_answer
StreamTail(ans, last, final) == Flush(ans, last) \o <<final>>

\* lines 331-334, once the stream is exhausted
ChatStreamEnd(ic) ==
    /\ pc = "stream"
    /\ LET d == DecorateAnswer(thought \o answer, kbinfos, Quoting, ic)
       IN /\ calls' = [calls EXCEPT !["citations"] = IF d.asked THEN @ + 1 ELSE @]
          /\ kbinfos' = d.kb
          /\ cited' = d.cited
          /\ out' = out \o StreamTail(answer, last_ans, d.env)
    /\ pc' = "done"
    /\ UNCHANGED <<reqvars, msg, exc, sqlvars, retrieved, knowledges, streamvars>>

(***************************************************************************)
(* ask(): lines 463-547.                                                   *)
(***************************************************************************)
\* lines 487-522 and the call of chat_streamly of line 544
AskRetrieve(kb) ==
    /\ pc = "ask"
    /\ kbinfos' = kb
    /\ retrieved' = kb
    /\ knowledges' = KbPrompt(kb)
    /\ calls' = [calls EXCEPT !["retrieval"] = @ + 1, !["generate"] = @ + 1]
    /\ answer' = <<>>
    /\ pc' = "ask_stream"
    /\ UNCHANGED <<reqvars, msg, out, exc, sqlvars, cited, last_ans, delta_ans>>

\* one turn of the loop of lines 544-546
AskSnapshot(k, cap) ==
    /\ pc = "ask_stream"
    /\ Len(answer) + k <= cap
    /\ Len(out) < MaxSnapshots
    /\ answer' = answer \o Words(Len(answer) + 1, Len(answer) + k)
    /\ out' = Append(out, Envelope("delta", answer', RefEmptyDict, <<>>))
    /\ UNCHANGED <<reqvars, msg, pc, calls, exc, sqlvars, kbvars, last_ans, delta_ans>>

\* line 547
AskStreamEnd(ic) ==
    /\ pc = "ask_stream"
    /\ LET d == AskDecorateAnswer(answer, kbinfos, ic)
       IN /\ calls' = Called("citations")
          /\ kbinfos' = d.kb
          /\ cited' = d.cited
          /\ out' = Append(out, d.env)
    /\ pc' = "done"
    /\ UNCHANGED <<reqvars, msg, exc, sqlvars, retrieved, knowledges, streamvars>>

(***************************************************************************)
(* The specifications.                                                     *)
(***************************************************************************)
\* tokens a snapshot may add in the runs of chat_solo and ask
GrowSolo == {0, MinDeltaTokens}

\* a whole request
Next ==
    \/ ChatEntry
    \/ \E ans \in ChatAnswers : SoloAnswer(ans)
    \/ SoloStreamBegin
    \/ \E k \in GrowSolo : SoloSnapshot(k, MaxLenChat)
    \/ SoloStreamEnd
    \/ \E raw \in SqlOutputsChat, res \in TablesChat : UseSqlFirst(raw, res)
    \/ \E raw \in SqlOutputsChat, res \in TablesChat : UseSqlRetry(raw, res)
    \/ ChatAfterSql
    \/ ChatParams
    \/ \E kb \in KbInfos : ChatRetrieve(kb)
    \/ ChatEmptyResponse
    \/ \E used \in UsedTokenCounts : ChatPrompt(used)
    \/ \E ans \in ChatAnswers, ic \in CitationSets(kbinfos) : ChatAnswer(ans, ic)
    \/ ChatStreamBegin
    \/ \E k \in GrowChat : ChatSnapshot(k, MaxLenChat)
    \/ \E ic \in CitationSets(kbinfos) : ChatStreamEnd(ic)
    \/ \E kb \in KbInfos : AskRetrieve(kb)
    \/ \E k \in GrowSolo : AskSnapshot(k, MaxLenChat)
    \/ \E ic \in CitationSets(kbinfos) : AskStreamEnd(ic)

Spec == Init /\ [][Next]_vars


\* tokens a snapshot of ask() may add in the runs of the streaming loops
GrowAsk == {0, 1, MinDeltaTokens}

\* a streaming request of a dialog with knowledge bases, or ask()
InitStream ==
    \/ \E quote \in BOOLEAN : Start("chat", PlainDialog(quote, <<>>), History, {}, TRUE)
    \/ Start("ask", PlainDialog(TRUE, <<>>), Question, {}, TRUE)

NextStream ==
    \/ ChatEntry
    \/ ChatParams
    \/ \E kb \in KbInfos : ChatRetrieve(kb)
    \/ \E used \in UsedTokenCounts : ChatPrompt(used)
    \/ ChatStreamBegin
    \/ \E k \in 0..MaxGrow : ChatSnapshot(k, MaxLen)
    \/ \E ic \in CitationSets(kbinfos) : ChatStreamEnd(ic)
    \/ \E kb \in KbInfos : AskRetrieve(kb)
    \/ \E k \in GrowAsk : AskSnapshot(k, MaxLen)
    \/ \E ic \in CitationSets(kbinfos) : AskStreamEnd(ic)

SpecStream == InitStream /\ [][NextStream]_vars

\* use_sql(question, field_map, tenant_id, chat_mdl, quota) called on its own
InitSql ==
    \E quote \in BOOLEAN :
        Start("use_sql", [PlainDialog(quote, <<>>) EXCEPT !.field_map = Fields],
              Question, {}, FALSE)

NextSql ==
    \/ \E raw \in SqlOutputs, res \in Tables : UseSqlFirst(raw, res)
    \/ \E raw \in SqlOutputs, res \in Tables : UseSqlRetry(raw, res)

SpecSql == InitSql /\ [][NextSql]_vars

\* the dialog without knowledge bases
SoloDialog == [PlainDialog(TRUE, <<>>) EXCEPT !.kbs = <<>>]

\* the lexemes of the contents tried in the runs that look at the history
Alphabet == {"##", "1", "$$"}

\* the texts of at most n lexemes
Contents(n) == UNION {[1..k -> Alphabet] : k \in 0..n}

\* chat() that does not stream, with an earlier answer in the history
InitHistory ==
    \E d \in {SoloDialog, PlainDialog(TRUE, <<>>)}, c \in Contents(MaxContent) :
        Start("chat", d, <<Message("assistant", c)>> \o Question, {}, FALSE)

NextHistory ==
    \/ ChatEntry
    \/ SoloAnswer(<<W(1)>>)
    \/ ChatParams
    \/ ChatRetrieve(EmptyKbInfo)
    \/ \E used \in UsedTokenCounts : ChatPrompt(used)
    \/ ChatAnswer(<<W(1)>>, {})

SpecHistory == InitHistory /\ [][NextHistory]_vars


(***************************************************************************)
(* Properties.                                                             *)
(***************************************************************************)
Last(s) == s[Len(s)]

\* the envelopes of out of the given kinds, in order
OfKinds(kinds) == SelectSeq(out, LAMBDA e : e.kind \in kinds)

\* the texts handed to tts for the streamed envelopes, one after the other
EmittedDeltas ==
    LET es == OfKinds({"delta", "flush"})
    IN Concat([i \in 1..Len(es) |-> es[i].tts])

\* chat() streaming the answer of a dialog with knowledge bases
ChatStreams == entry = "chat" /\ dialog.kbs # <<>> /\ stream

\* C1: in chat() with knowledge bases and stream=True, every streamed
\* envelope but the final flush adds at least 16 tokens to the snapshot
\* emitted before it, what it hands to tts is exactly that added text, the
\* text emitted so far is always the last emitted snapshot, and once the
\* stream is exhausted the emitted deltas, in order, make up the last snapshot:
\* nothing is emitted twice and nothing is lost.
C1_ThrottleDeltas ==
    ChatStreams =>
      LET es == OfKinds({"delta", "flush"})
          before(i) == IF i = 1 THEN <<>> ELSE es[i - 1].answer
      IN /\ \A i \in 1..Len(es) :
              /\ es[i].answer = before(i) \o es[i].tts
              /\ es[i].kind = "delta" => NumTokens(es[i].tts) >= MinDeltaTokens
              /\ es[i].kind = "flush" => i = Len(es) /\ es[i].tts # <<>>
         /\ pc = "stream" => EmittedDeltas = last_ans
         /\ pc = "done" /\ OfKinds({"final"}) # <<>> => EmittedDeltas = answer

\* C1 witness: a stream that emitted a throttled delta and a final flush
C1_Witness ==
    /\ ChatStreams
    /\ pc = "done"
    /\ OfKinds({"delta"}) # <<>>
    /\ OfKinds({"flush"}) # <<>>

\* C2: use_sql asks the chat model and runs sql_retrieval at most twice, the
\* second attempt follows an execution error of the first and only that, and
\* a second execution error makes use_sql return None.
C2_OneRetry ==
    /\ calls["sqlchat"] <= MaxTriedTimes
    /\ calls["sqlexec"] <= MaxTriedTimes
    /\ tried_times <= MaxTriedTimes
    /\ tried_times = calls["sqlexec"]
    /\ Len(sqllog) = calls["sqlchat"]
    /\ Len(sqllog) > 1 => sqllog[1] = "error"
    /\ sqllog = <<"error">> => pc = "sql_retry"
    /\ (Len(sqllog) > 1 /\ Last(sqllog) = "error") =>
           pc = "sql_ret" /\ sqlret = NoEnvelope /\ exc = "none"

\* C2 witness: both attempts were executed and both reported an error
C2_Witness == sqllog = <<"error", "error">> /\ pc = "sql_ret" /\ entry = "use_sql"

\* C3: whatever way the corrective retry fails, by an execution error or by
\* a statement rejected after sanitization, use_sql returns None and raises
\* nothing.
C3_RetryFailureReturnsNone ==
    (Len(sqllog) > 1 /\ Last(sqllog) \in {"error", "rejected"}) =>
        pc = "sql_ret" /\ sqlret = NoEnvelope /\ exc = "none"

\* C4: a first statement rejected after sanitization makes use_sql return
\* None after one chat-model call, no execution and no retry; only an
\* execution error of the first statement leads to the retry.
C4_RejectionNoRetry ==
    /\ (sqllog # <<>> /\ sqllog[1] = "rejected") =>
           /\ sqllog = <<"rejected">>
           /\ pc = "sql_ret"
           /\ sqlret = NoEnvelope
           /\ exc = "none"
           /\ calls["sqlchat"] = 1
           /\ calls["sqlexec"] = 0
           /\ tried_times = 0
    /\ pc = "sql_retry" => sqllog = <<"error">>

\* C4 witness: use_sql returned after its first statement was rejected
C4_Witness == sqllog = <<"rejected">> /\ pc = "sql_ret" /\ entry = "use_sql"

\* a parameter other than "knowledge" is required and not passed
MissingRequired ==
    \E i \in 1..Len(dialog.parameters) :
        /\ dialog.parameters[i].key # "knowledge"
        /\ ~dialog.parameters[i].optional
        /\ dialog.parameters[i].key \notin kwargs

\* C5 as stated: when a required parameter is missing, the chat model is
\* never called, whatever the dialog.
C5_NoModelCallBeforeMissingParameter ==
    (entry = "chat" /\ MissingRequired) => ChatModelCalls = 0

\* C5 amended: for a dialog with knowledge bases and a missing required
\* parameter, KeyError is raised before any retrieval, keyword extraction,
\* citation or answer generation and before anything is yielded but the
\* envelope of use_sql; with an empty field map the chat model is not called
\* at all, with a field map use_sql asks it at most twice before, and the
\* error is raised only if use_sql returned None.
C5_MissingParameterAmended ==
    (entry = "chat" /\ dialog.kbs # <<>> /\ MissingRequired) =>
        /\ calls["retrieval"] = 0
        /\ calls["keyword"] = 0
        /\ calls["generate"] = 0
        /\ calls["citations"] = 0
        /\ calls["sqlchat"] <= MaxTriedTimes
        /\ dialog.field_map = <<>> => ChatModelCalls = 0
        /\ pc \notin {"retrieve", "retrieved", "generate", "stream"}
        /\ pc = "params" => sqlret = NoEnvelope
        /\ exc = "KeyError" => pc = "raised" /\ out = <<>> /\ sqlret = NoEnvelope
        /\ out # <<>> => out = <<sqlret>> \/ EmbeddingsDiffer(dialog.kbs)

\* C5 witness: KeyError raised after use_sql asked the chat model twice
C5_Witness == exc = "KeyError" /\ calls["sqlchat"] = MaxTriedTimes

\* the words of a text, in order: what is left without markers, image
\* embeds and the guidance suffix
WordsOf(text) == SelectSeq(text, LAMBDA t : t.k \notin {"m", "img", "g"})

\* a streaming pipeline with knowledge bases that generated an answer and
\* has yielded all it yields
StreamedOut ==
    /\ pc = "done"
    /\ stream
    /\ \/ entry = "ask"
       \/ entry = "chat" /\ dialog.kbs # <<>> /\ OfKinds({"final"}) # <<>>

\* the envelopes before the last are the snapshots, in the order they were
\* produced, each with reference {}; the last is the only one whose reference
\* is not {}
TerminalIsLast ==
    /\ out # <<>>
    /\ Last(out).kind = "final"
    /\ Len(OfKinds({"final"})) = 1
    /\ \A i \in 1..(Len(out) - 1) :
          /\ out[i].reference = RefEmptyDict
          /\ out[i].kind \in {"delta", "flush"}
          /\ out[i].answer = Take(answer, Len(out[i].answer))
          /\ i > 1 => Len(out[i - 1].answer) <= Len(out[i].answer)
    /\ Last(out).reference # RefEmptyDict
    /\ Last(out).reference.shape = (IF entry = "chat" /\ ~Quoting THEN "list" ELSE "kb")

\* C6 as stated: the last envelope is the only one with a resolved
\* reference and its answer is the final cumulative snapshot.
C6_TerminalAnswerIsSnapshot ==
    StreamedOut => TerminalIsLast /\ Last(out).answer = answer

\* C6 amended: the last envelope is the only one with a resolved reference,
\* the envelopes before it carry reference {} in the order of the snapshots,
\* and the answer of the last is the final cumulative snapshot as
\* decorate_answer returns it: the words of the snapshot, with the citation
\* markers, image embeds and guidance suffix decorate_answer adds.
C6_TerminalEnvelopeLast ==
    /\ StreamedOut => TerminalIsLast /\ WordsOf(Last(out).answer) = answer
    /\ (pc \in {"stream", "ask_stream"}) =>
           \A i \in 1..Len(out) : out[i].reference = RefEmptyDict

\* C6 witness: chat() yielded a throttled delta, the final flush and then the
\* terminal envelope, whose answer carries the markers of insert_citations
C6_Witness ==
    /\ StreamedOut
    /\ entry = "chat"
    /\ OfKinds({"delta"}) # <<>>
    /\ OfKinds({"flush"}) # <<>>
    /\ Last(out).reference.doc_aggs # <<>>
    /\ Last(out).answer # answer

\* C7: with knowledge bases of different embedding models chat() yields the
\* one envelope that says so and nothing else, raises nothing, and calls
\* neither the retriever nor a model.
C7_DifferentEmbeddings ==
    (entry = "chat" /\ Cardinality(Range(dialog.kbs)) > 1) =>
        /\ \A c \in CallKinds : calls[c] = 0
        /\ exc = "none"
        /\ pc \in {"chat", "done"}
        /\ pc = "chat" => out = <<>>
        /\ pc = "done" =>
              /\ Len(out) = 1
              /\ DifferentEmbeddingModels \in Range(out[1].answer)

\* C7 witness: the request of such a dialog has ended
C7_Witness == entry = "chat" /\ Cardinality(Range(dialog.kbs)) > 1 /\ pc = "done"

\* C8: when nothing was retrieved and the dialog has an empty_response,
\* chat() yields one envelope, with that answer and with the retrieval result
\* as its reference, and never asks the chat model for an answer.
C8_EmptyResponse ==
    (entry = "chat" /\ dialog.kbs # <<>> /\ dialog.empty_response # <<>>
       /\ knowledges = 0) =>
        /\ calls["generate"] = 0
        /\ calls["citations"] = 0
        /\ pc \notin {"generate", "stream"}
        /\ (pc = "done" /\ sqlret = NoEnvelope /\ ~EmbeddingsDiffer(dialog.kbs)) =>
              /\ Len(out) = 1
              /\ out[1].answer = dialog.empty_response
              /\ out[1].reference = RefKb(retrieved.chunks, retrieved.doc_aggs)

\* C8 witness: the retriever was asked, returned nothing, and the request ended
C8_Witness ==
    /\ entry = "chat"
    /\ pc = "done"
    /\ calls["retrieval"] = 1
    /\ dialog.empty_response # <<>>
    /\ knowledges = 0
    /\ Len(out) = 1

\* the resolved reference of the request, once decorate_answer built one
Resolved == pc = "done" /\ out # <<>> /\ Last(out).kind = "final"
            /\ Last(out).reference.shape = "kb"

\* the doc_ids of the cited chunks
CitedDocs == {retrieved.chunks[i + 1].doc_id : i \in cited}

\* C9: the doc_aggs of a resolved reference is not empty when the retrieval's
\* was not; it holds, in their order, exactly the retrieved documents of the
\* cited chunks, and all retrieved documents when there is none of these.
C9_DocAggsFallback ==
    Resolved =>
      LET aggs == Last(out).reference.doc_aggs
          orig == retrieved.doc_aggs
          hit == {i \in 1..Len(orig) : orig[i].doc_id \in CitedDocs}
      IN /\ orig # <<>> => aggs # <<>>
         /\ hit = {} => aggs = orig
         /\ hit # {} =>
               /\ Len(aggs) = Cardinality(hit)
               /\ \A j \in 1..Len(aggs) : aggs[j].doc_id \in CitedDocs
               /\ \A i \in hit : orig[i] \in Range(aggs)
         /\ kbinfos.doc_aggs = aggs

\* C9 witness: a chunk was cited whose document is not among the retrieved
\* ones, and the reference holds them all
C9_Witness ==
    /\ Resolved
    /\ cited # {}
    /\ retrieved.doc_aggs # <<>>
    /\ \A d \in Range(retrieved.doc_aggs) : d.doc_id \notin CitedDocs
    /\ Last(out).reference.doc_aggs = retrieved.doc_aggs

\* C10: no chunk of the reference of a yielded envelope has a vector.
C10_NoVectorInReference ==
    \A i \in 1..Len(out) :
        \A j \in 1..Len(out[i].reference.chunks) :
            ~out[i].reference.chunks[j].has_vector

\* the answer the chat model gave to the request that did not stream, as
\* decorate_answer received it after the reasoning segment was split off
RawRest == SplitThink(Last(out).tts).rest

\* chat() resolved, with citations, an answer that already carried a marker
SelfCited ==
    /\ Resolved
    /\ entry = "chat"
    /\ ~stream
    /\ MarkerIndices(RawRest) # {}

\* the marker indices of the answer that are positions of retrieved chunks
InRangeMarkers == {i \in MarkerIndices(RawRest) : i < Len(retrieved.chunks)}

\* C11 as stated: when the answer already carries a marker,
\* insert_citations is not called, the cited chunks are the in-range marker
\* indices, and when there is one doc_aggs holds only documents of cited chunks.
C11_SelfCitedOnlyCitedDocs ==
    SelfCited =>
        /\ calls["citations"] = 0
        /\ cited = InRangeMarkers
        /\ cited # {} =>
              \A d \in Range(Last(out).reference.doc_aggs) : d.doc_id \in CitedDocs

\* C11 amended: when the answer already carries a marker, insert_citations
\* is not called and the cited chunks are the in-range marker indices; doc_aggs
\* holds only documents of cited chunks when the retrieval's doc_aggs has one
\* of them, and is the retrieval's whole doc_aggs when it has none, be a chunk
\* cited or not.
C11_SelfCitedDocs ==
    SelfCited =>
        LET aggs == Last(out).reference.doc_aggs
            known == {d \in Range(retrieved.doc_aggs) : d.doc_id \in CitedDocs}
        IN /\ calls["citations"] = 0
           /\ cited = InRangeMarkers
           /\ known # {} => Range(aggs) = known
           /\ known = {} => aggs = retrieved.doc_aggs

\* C11 witness: the answer cites two of three chunks by markers of its own and
\* the reference keeps the documents of these two only
C11_Witness ==
    /\ SelfCited
    /\ cited = {0, 1}
    /\ Len(retrieved.chunks) = 3
    /\ Len(Last(out).reference.doc_aggs) = 2
    /\ 7 \in MarkerIndices(RawRest)

\* the markers of a text whose index is no position of chunks, in order
OutOfRange(text, chunks) ==
    SelectSeq(text, LAMBDA t : t.k = "m" /\ t.v >= Len(chunks))

\* C12: a marker whose index is no position of a retrieved chunk stays in
\* the answer as it was, is followed by no image embed, is not among the cited
\* chunks and gives no document to the filter of doc_aggs; decorate_answer
\* ends without an error whatever the markers.
C12_OutOfRangeInert ==
    /\ SelfCited =>
        LET text == Last(out).answer
            n == Len(retrieved.chunks)
        IN /\ OutOfRange(text, retrieved.chunks) = OutOfRange(RawRest, retrieved.chunks)
           /\ \A i \in 1..Len(text) :
                 (text[i].k = "m" /\ text[i].v >= n) =>
                     (i = Len(text) \/ text[i + 1].k # "img")
           /\ \A i \in cited : i < n
           /\ CitedDocs = {retrieved.chunks[i + 1].doc_id : i \in InRangeMarkers}
           /\ (InRangeMarkers = {} /\ retrieved.doc_aggs # <<>>) =>
                 Last(out).reference.doc_aggs = retrieved.doc_aggs
    /\ (entry = "chat" /\ ~stream /\ pc = "done" /\ calls["generate"] > 0) =>
           out # <<>> /\ Last(out).kind \in {"final", "solo"}

\* C12 witness: the answer carries the marker ##7$$ with three chunks
\* retrieved, and the resolved answer has an image embed for another marker
C12_Witness ==
    /\ SelfCited
    /\ Len(retrieved.chunks) = 3
    /\ OutOfRange(Last(out).answer, retrieved.chunks) # <<>>
    /\ \E i \in 1..Len(Last(out).answer) : Last(out).answer[i].k = "img"

\* use_sql returned the table of a result set that names doc_id and docnm_kwd
SqlCited ==
    /\ pc = "sql_ret"
    /\ sqlret # NoEnvelope
    /\ ColumnsNamed(tbl, "doc_id") # {}
    /\ ColumnsNamed(tbl, "docnm_kwd") # {}

\* the sum of the counts of a doc_aggs
RECURSIVE SumCounts(_)
SumCounts(aggs) == IF aggs = <<>> THEN 0 ELSE Head(aggs).count + SumCounts(Tail(aggs))

\* C13: the doc_aggs use_sql returns with citations has one entry for each
\* doc_id of the rows of the last result set and for nothing else, the count
\* of an entry is the number of these rows with its doc_id, the counts add up
\* to the number of rows, and the result set is that of an attempt that
\* reported no error.
C13_SqlDocAggsCounts ==
    SqlCited =>
        LET aggs == sqlret.reference.doc_aggs
            di == SetMin(ColumnsNamed(tbl, "doc_id"))
            rowsOf(d) == {i \in 1..Len(tbl.rows) : tbl.rows[i][di] = d}
        IN /\ Last(sqllog) = "ok"
           /\ ~tbl.error
           /\ {aggs[j].doc_id : j \in 1..Len(aggs)} =
                  {tbl.rows[i][di] : i \in 1..Len(tbl.rows)}
           /\ \A j, k \in 1..Len(aggs) : aggs[j].doc_id = aggs[k].doc_id => j = k
           /\ \A j \in 1..Len(aggs) : aggs[j].count = Cardinality(rowsOf(aggs[j].doc_id))
           /\ SumCounts(aggs) = Len(tbl.rows)
           /\ Len(sqlret.reference.chunks) = Len(tbl.rows)

\* C13 witness: the first statement failed with rows of its own, the retry
\* returned three rows of two documents
C13_Witness ==
    /\ SqlCited
    /\ sqllog = <<"error", "ok">>
    /\ Len(tbl.rows) = 3
    /\ Len(sqlret.reference.doc_aggs) = 2
    /\ \E j \in 1..Len(sqlret.reference.doc_aggs) : sqlret.reference.doc_aggs[j].count = 2

\* chat() of a dialog whose knowledge bases share an embedding model and
\* have a field map, once use_sql has returned
SqlReturned ==
    /\ entry = "chat"
    /\ dialog.kbs # <<>>
    /\ ~EmbeddingsDiffer(dialog.kbs)
    /\ dialog.field_map # <<>>
    /\ pc \notin {"chat", "use_sql", "sql_retry"}
    /\ exc # "AttributeError"

\* an envelope of use_sql is the only one chat() yields, and nothing is
\* retrieved, cited or generated after it
SqlShortCircuits ==
    (SqlReturned /\ sqlret # NoEnvelope) =>
        /\ pc \in {"sql_ret", "done"}
        /\ exc = "none"
        /\ calls["keyword"] = 0
        /\ calls["retrieval"] = 0
        /\ calls["citations"] = 0
        /\ calls["generate"] = 0
        /\ pc = "sql_ret" => out = <<>>
        /\ pc = "done" => out = <<sqlret>>

\* after None chat() goes on with the parameters and the retrieval, and
\* what it yields last is the empty response or the resolved answer
FallsThrough ==
    (SqlReturned /\ sqlret = NoEnvelope) =>
        /\ pc \in {"sql_ret", "params", "retrieve", "retrieved", "generate", "stream",
                   "done", "raised"}
        /\ \A i \in 1..Len(out) : out[i].kind # "sql"
        /\ pc \in {"retrieved", "generate", "stream", "done"} =>
               calls["retrieval"] = (IF DeclaresKnowledge(dialog.parameters) THEN 1 ELSE 0)
        /\ pc = "done" => out # <<>> /\ Last(out).kind \in {"empty", "final"}

\* C14 as stated: an envelope of use_sql short-circuits chat(); after None
\* chat() takes the free-text path and ends with a terminal envelope.
C14_SqlOrFallThrough ==
    /\ SqlShortCircuits
    /\ FallsThrough
    /\ (SqlReturned /\ sqlret = NoEnvelope) => pc # "raised"

\* C14 amended: an envelope of use_sql short-circuits chat(); after None
\* chat() takes the free-text path and ends with a terminal envelope, unless a
\* required parameter is missing: then it raises KeyError and yields nothing.
C14_SqlOrFallThroughOrKeyError ==
    /\ SqlShortCircuits
    /\ FallsThrough
    /\ (SqlReturned /\ sqlret = NoEnvelope /\ pc = "raised") =>
           exc = "KeyError" /\ MissingRequired /\ out = <<>>
    /\ (SqlReturned /\ sqlret = NoEnvelope /\ ~MissingRequired) => pc # "raised"

\* C14 witness: use_sql returned None after a rejected statement and chat()
\* ended with the resolved answer of the retrieval path
C14_Witness ==
    /\ SqlReturned
    /\ sqlret = NoEnvelope
    /\ sqllog = <<"rejected">>
    /\ pc = "done"
    /\ calls["retrieval"] = 1
    /\ Last(out).kind = "final"

\* a text holds a match of the marker grammar ##<digits>$$
HasMarker(s) == \E i \in 1..Len(s) : MatchLength(Drop(s, i - 1)) > 0

\* the history messages among the messages handed to the chat model: all of
\* chat_solo's, all but the dialog's system message in chat()
SentHistory == IF msg # <<>> /\ dialog.kbs # <<>> THEN Tail(msg) ELSE msg

\* C15: no history message handed to the chat model by chat() or
\* chat_solo() holds a citation marker, and stripping its content once more
\* changes nothing.
C15_NoMarkerSent ==
    \A i \in 1..Len(SentHistory) :
        /\ ~HasMarker(SentHistory[i].content)
        /\ StripMarkers(SentHistory[i].content) = SentHistory[i].content

\* C16: without knowledge bases chat() is chat_solo: neither the retriever
\* nor use_sql nor insert_citations is called, the messages handed to the chat
\* model are the history without its system messages, every envelope has
\* reference {}, and a request that does not stream yields one envelope.
C16_SoloDelegation ==
    (entry = "chat" /\ dialog.kbs = <<>>) =>
        /\ pc \in {"chat", "solo", "solo_stream", "done", "raised"}
        /\ calls["retrieval"] = 0
        /\ calls["keyword"] = 0
        /\ calls["citations"] = 0
        /\ calls["sqlchat"] = 0
        /\ calls["sqlexec"] = 0
        /\ sqllog = <<>>
        /\ retrieved = EmptyKbInfo
        /\ \A i \in 1..Len(out) : out[i].reference = RefEmptyDict
        /\ \A i \in 1..Len(msg) : msg[i].role # "system"
        /\ calls["generate"] > 0 =>
              Len(msg) = Cardinality({i \in 1..Len(messages) : messages[i].role # "system"})
        /\ (~stream /\ pc = "done") => Len(out) = 1 /\ out[1].kind = "solo"
        /\ (~stream /\ pc # "done") => out = <<>>

\* C16 witness: a request that does not stream ended, and its history has a
\* system message
C16_Witness ==
    /\ entry = "chat"
    /\ dialog.kbs = <<>>
    /\ ~stream
    /\ pc = "done"
    /\ \E i \in 1..Len(messages) : messages[i].role = "system"
    /\ Len(msg) = 2

\* C17: chat_solo streaming ends without raising, its final flush is
\* emitted exactly when the last snapshot holds text that was not emitted yet,
\* and the emitted deltas, in order, make up the last snapshot.
C17_SoloFlush ==
    (entry = "chat" /\ dialog.kbs = <<>> /\ stream) =>
        /\ exc = "none"
        /\ pc # "raised"
        /\ pc = "done" =>
              /\ (OfKinds({"flush"}) # <<>>) <=> (answer # last_ans)
              /\ Len(OfKinds({"flush"})) <= 1
              /\ EmittedDeltas = answer

\* the image of the chunk a marker points to, 0 when the token is no marker,
\* points to no chunk or the chunk has no image
ImageOf(t) ==
    IF t.k = "m" /\ t.v < Len(retrieved.chunks)
    THEN retrieved.chunks[t.v + 1].image_id
    ELSE 0

\* C18: in the answer chat() resolved with citations, each image is
\* embedded at most once, an embed stands right behind the first marker of the
\* text whose chunk has that image, every image of a marked chunk is embedded,
\* and a marker whose chunk has no image, or whose image was embedded before,
\* is followed by no embed.
C18_ImageOnce ==
    (Resolved /\ entry = "chat") =>
        LET text == Last(out).answer
            embeds == {i \in 1..Len(text) : text[i].k = "img"}
            first(img) == SetMin({i \in 1..Len(text) : ImageOf(text[i]) = img})
        IN /\ \A i, j \in embeds : text[i].v = text[j].v => i = j
           /\ \A i \in embeds :
                 /\ i > 1
                 /\ ImageOf(text[i - 1]) = text[i].v
                 /\ first(text[i].v) = i - 1
           /\ \A i \in 1..Len(text) :
                 (text[i].k = "m" /\ ImageOf(text[i]) # 0 /\ first(ImageOf(text[i])) = i) =>
                     (i < Len(text) /\ text[i + 1] = Img(ImageOf(text[i])))
           /\ \A i \in 1..Len(text) :
                 (text[i].k = "m" /\ i < Len(text) /\ text[i + 1].k = "img") =>
                     (ImageOf(text[i]) # 0 /\ first(ImageOf(text[i])) = i)

\* C18 witness: the marker of the third chunk stands before the marker of
\* the first, both chunks have the same image, and the one embed is behind the
\* former
C18_Witness ==
    /\ Resolved
    /\ entry = "chat"
    /\ Len(retrieved.chunks) = 3
    /\ Len(Last(out).answer) = 4
    /\ Last(out).answer[1] = M(2)
    /\ Last(out).answer[2] = Img(1)
    /\ Last(out).answer[4] = M(0)

\* a statement calls an aggregate function or groups its rows
Aggregates(s) ==
    \E i \in 1..Len(s) : s[i] \in {"sum(", "avg(", "max(", "min(", "count(", "group by"}

\* the columns written in place of the star of a rewritten select *: the
\* lexemes behind the forced doc columns up to the next space, commas left out
StarColumns(s) ==
    LET n == Len(DocColumns)
        spaces == {i \in (n + 1)..Len(s) : s[i] = " "}
        last == IF spaces = {} THEN Len(s) ELSE SetMin(spaces) - 1
    IN {s[i] : i \in (n + 1)..last} \ {","}

\* C19: the statement handed to sql_retrieval selects doc_id and docnm_kwd
\* first exactly when it has no aggregate function (sum, avg, max, min, count)
\* and no group by; with one of these it is the sanitized statement; and the
\* columns that replace a star are at most 12 fields of the field map, none of
\* them forbidden.
C19_DocColumnsIffNoAggregate ==
    (sqllog # <<>> /\ Last(sqllog) # "rejected") =>
        /\ (Take(sql, Len(DocColumns)) = DocColumns) <=> ~Aggregates(sql)
        /\ Aggregates(sql) => sql \in {Sanitize(raw) : raw \in SqlOutputs}
        /\ Take(sql, Len(DocColumns)) = DocColumns =>
              /\ StarColumns(sql) \subseteq Range(dialog.field_map)
              /\ StarColumns(sql) \cap ForbiddenFields = {}
              /\ Cardinality(StarColumns(sql)) <= MaxSelectFields + 1

\* use_sql has ended, by a return or by an exception
SqlEnded == sqllog # <<>> /\ pc \notin {"use_sql", "sql_retry"}

\* C20: use_sql returns an envelope only if its last statement was
\* executed without an error and returned a row; when the last statement was
\* rejected, reported an error or returned no row, use_sql returns None,
\* raises nothing, and chat() yields no envelope of use_sql.
C20_EnvelopeOnlyFromRows ==
    /\ sqlret # NoEnvelope =>
          /\ Last(sqllog) = "ok"
          /\ ~tbl.none
          /\ ~tbl.error
          /\ Len(tbl.rows) >= 1
          /\ sqlret.kind = "sql"
    /\ (SqlEnded /\ (Last(sqllog) \in {"rejected", "error"} \/ Len(tbl.rows) = 0)) =>
          /\ sqlret = NoEnvelope
          /\ exc \notin {"AttributeError"}
          /\ pc # "sql_ret" => pc \in {"params", "retrieve", "retrieved", "generate",
                                       "stream", "done", "raised"}
          /\ \A i \in 1..Len(out) : out[i].kind # "sql"
    /\ \A i \in 1..Len(out) : out[i].kind = "sql" => out[i] = sqlret /\ sqlret # NoEnvelope

\* C21: in the envelope use_sql returns with citations, the marker behind
\* a rendered row is the position of a chunk of the reference, and that chunk
\* is the one made of the result row the rendered row shows.
C21_MarkerPointsToRow ==
    SqlCited =>
        LET text == sqlret.answer
            chunks == sqlret.reference.chunks
            di == SetMin(ColumnsNamed(tbl, "doc_id"))
            ni == SetMin(ColumnsNamed(tbl, "docnm_kwd"))
        IN \A p \in 2..Len(text) :
              text[p].k = "m" =>
                  LET r == text[p - 1].v
                  IN /\ text[p - 1].k = "w"
                     /\ r \in 1..Len(tbl.rows)
                     /\ text[p].v >= 0
                     /\ text[p].v < Len(chunks)
                     /\ chunks[text[p].v + 1].doc_id = tbl.rows[r][di]
                     /\ chunks[text[p].v + 1].docnm_kwd = tbl.rows[r][ni]

\* C22: no step of a request changes the dialog it was given: the system
\* template of prompt_config and max_tokens of llm_setting keep the values
\* they had when chat() was called.
C22_DialogUnchanged == [][dialog' = dialog]_vars

=============================================================================
